---------------------------- MODULE Spec2Model ----------------------------
(***************************************************************************)
(* The evaluation loop of flappy-bird-neat (src/game.py): eval_genomes     *)
(* with the Bird and Pipe objects it drives.                               *)
(*                                                                         *)
(* Units.  bird.y, bird.height and the displacement of Bird.move are       *)
(* floats that are always multiples of 0.5 (vel is 0 or -10.5, the         *)
(* acceleration term is 1.5*t**2); they are kept here as integers in       *)
(* half-pixels (field y holds 2*bird.y).  genome.fitness moves in steps of *)
(* 0.1, 5 and 1 and is kept in tenths.  Everything else is in pixels.      *)
(*                                                                         *)
(* Images.  The sprites are loaded from assets that are not part of the    *)
(* source; their sizes after scale2x are the constants BIRD_WIDTH,         *)
(* BIRD_HEIGHT, PIPE_WIDTH, PIPE_HEIGHT and their masks are taken to be    *)
(* the full rectangle of the image.                                        *)
(***************************************************************************)
EXTENDS Integers, Sequences, FiniteSets

(* ------------------------------ bounds -------------------------------- *)
\* largest cohort handed to eval_genomes
MaxBirds == 2
\* number of iterations of the game loop that are explored
MaxTicks == 155

(* ----------------------------- constants ------------------------------ *)
WIN_HEIGHT == 800
FLOOR == 730
MAX_ROTATION == 25
ROT_VEL == 20
ANIMATION_TIME == 5
GAP == 200
VEL == 5
BIRD_X == 230
BIRD_Y == 350
PIPE_X == 600
BIRD_WIDTH == 68
BIRD_HEIGHT == 48
PIPE_WIDTH == 104
PIPE_HEIGHT == 640
\* random.randrange(50, 450) draws from RAND_LO .. RAND_HI - 1
RAND_LO == 50
RAND_HI == 450

VARIABLES
  pc,        \* position in eval_genomes
  birds,     \* list birds  (bird identities, in list order)
  nets,      \* list nets   (identity of the genome each network was built from)
  ge,        \* list ge     (genome identities)
  bird,      \* the Bird objects, by identity
  net,       \* the decision function of each genome, by identity
  fitness,   \* genome.fitness in tenths, by identity
  pipes,     \* list pipes of Pipe objects
  score,
  pipe_ind,
  add_pipe,
  rem,       \* list rem (identities of the pipes to remove)
  pidx,      \* position of the iterator of "for pipe in pipes"
  h          \* history of the run (see below)

\* The fields of h.  Only made is read by the actions (it numbers the Pipe
\* objects); the rest records what happened, for the properties.
\*   tick        iterations of the game loop started so far
\*   made        Pipe objects constructed so far
\*   score0, made0   score and made when the current iteration started
\*   flipped     pipes whose passed flag became True in this iteration
\*   overlapped  birds that were in the list when a pipe's collision loop
\*               started in this iteration and that this pipe collides with
\*   oob         birds that were in the list when this iteration's
\*               floor/ceiling loop started and were out of bounds
\*   failed      birds whose network call malfunctioned in this iteration
\*   err         the exception that ended the bird loop, "none" if none
\*   targets     pipes that this iteration's observations were taken from
\*   setters     birds whose pass of the collision loop body set a pipe's
\*               passed flag in this iteration
\*   survivors   the birds list as it was at the end of the collision loop
\*               of the pipe whose flag was set in this iteration
\*   bird0       the Bird objects as they were when the iteration started
\*   seen        per bird, the y of the last observation built for it
\*   out         per bird, output[0] of its network call in this iteration
\*               (<<"none", 0>> when there was no call or no output)
\*   jumped      birds whose Bird.jump was called in this iteration
\*   ticks_in    per genome, the bird loops that started with it in the list
\*   passes_in   per genome, the iterations with a newly passed pipe that it
\*               was in the list for after the pipe loop
\*   penalties   per genome, the number of times 1 was taken off its fitness
vars == <<pc, birds, nets, ge, bird, net, fitness, pipes, score, pipe_ind,
          add_pipe, rem, pidx, h>>

(* ------------------------------ helpers ------------------------------- *)
Abs(n) == IF n < 0 THEN -n ELSE n

Range(s) == {s[i] : i \in 1..Len(s)}

\* list.pop(x) for a 0-based x that is in range
Pop(s, x) == [i \in 1..(Len(s) - 1) |-> IF i <= x THEN s[i] ELSE s[i + 1]]

\* Python's round() of a float given in half units: halves go to the even integer
Round(y2) ==
  IF y2 % 2 = 0 THEN y2 \div 2
  ELSE LET k == (y2 - 1) \div 2 IN IF k % 2 = 0 THEN k ELSE k + 1

(* ------------------------------- Bird --------------------------------- *)
\* Bird.__init__(x, y): y and height in half-pixels
NewBird(x, y) ==
  [x |-> x, y |-> 2 * y, tilt |-> 0, tick_count |-> 0, vel |-> 0,
   height |-> 2 * y, img_count |-> 0, img |-> 0, displacement |-> 0]

\* Bird.jump: vel = -10.5 (here -21 half-pixels), tick_count = 0, height = y
jump(b) == [b EXCEPT !.vel = -21, !.tick_count = 0, !.height = b.y]

\* The displacement of Bird.move in half-pixels: 2*(vel*t + 1.5*t**2), then
\* the terminal velocity (>= 16 becomes 16) and the jump bias (< 0 gets -2).
NoClampDisplacement(vel, t) ==
  LET d == vel * t + 3 * t * t IN IF d < 0 THEN d - 4 ELSE d

Displacement(vel, t) ==
  LET d0 == vel * t + 3 * t * t
      d1 == IF d0 >= 32 THEN 32 ELSE d0
  IN  IF d1 < 0 THEN d1 - 4 ELSE d1

\* Bird.move
move(b) ==
  LET t == b.tick_count + 1
      d == Displacement(b.vel, t)
      y == b.y + d
      tilt == IF d < 0 \/ y < b.height + 100
              THEN (IF b.tilt < MAX_ROTATION THEN MAX_ROTATION ELSE b.tilt)
              ELSE (IF b.tilt > -90 THEN b.tilt - ROT_VEL ELSE b.tilt)
  IN  [b EXCEPT !.tick_count = t, !.displacement = d, !.y = y, !.tilt = tilt]

\* Bird.draw, as far as it changes the bird: img_count and img (an index
\* into IMGS)
draw(b) ==
  LET c == b.img_count + 1
      anim == IF c < ANIMATION_TIME THEN <<c, 0>>
              ELSE IF c < ANIMATION_TIME * 2 THEN <<c, 1>>
              ELSE IF c < ANIMATION_TIME * 3 THEN <<c, 2>>
              ELSE IF c < ANIMATION_TIME * 4 THEN <<c, 1>>
              ELSE IF c = ANIMATION_TIME * 4 + 1 THEN <<0, 0>>
              ELSE <<c, b.img>>
      fall == IF b.tilt <= -80 THEN <<ANIMATION_TIME * 2, 1>> ELSE anim
  IN  [b EXCEPT !.img_count = fall[1], !.img = fall[2]]

(* ------------------------------- Pipe --------------------------------- *)
\* random.randrange(lo, hi): a sample of lo .. hi-1 that holds both ends
WideRandrange(lo, hi) == {lo, (lo + hi) \div 2, hi}

randrange(lo, hi) == {lo, (lo + hi) \div 2, hi - 1}

\* Pipe.set_height with the drawn value r
ShortGapSetHeight(p, r) ==
  [p EXCEPT !.height = r, !.top = r - PIPE_HEIGHT, !.bottom = r + GAP - 1]

set_height(p, r) ==
  [p EXCEPT !.height = r, !.top = r - PIPE_HEIGHT, !.bottom = r + GAP]

\* Pipe.__init__(x) with the drawn height r; id tells the Pipe objects apart
NewPipe(id, x, r) ==
  set_height([id |-> id, x |-> x, height |-> 0, top |-> 0, bottom |-> 0,
              passed |-> FALSE], r)

\* Pipe.move
PipeMove(p) == [p EXCEPT !.x = p.x - VEL]

\* Bird.get_mask: the mask is taken from the image Bird.draw chose last
\* (an index into IMGS).  The three images have one size, which is all
\* that collide below uses of a mask.
get_mask(b) == b.img

\* mask.overlap(other, offset) for two full-rectangle masks of sizes
\* (w1, h1) and (w2, h2): some pixel of the second, placed at offset,
\* lies inside the first
overlap(w1, h1, w2, h2, offset) ==
  /\ offset[1] < w1 /\ offset[1] + w2 > 0
  /\ offset[2] < h1 /\ offset[2] + h2 > 0

\* Pipe.collide(bird)
collide(p, b) ==
  LET top_offset == <<p.x - b.x, p.top - Round(b.y)>>
      bottom_offset == <<p.x - b.x, p.bottom - Round(b.y)>>
      t_point == overlap(BIRD_WIDTH, BIRD_HEIGHT, PIPE_WIDTH, PIPE_HEIGHT, top_offset)
      b_point == overlap(BIRD_WIDTH, BIRD_HEIGHT, PIPE_WIDTH, PIPE_HEIGHT, bottom_offset)
  IN  t_point \/ b_point

(* ------------------------- decision functions ------------------------- *)
\* A network output value: <<"num", v>> is the float v/10, <<"nan", 0>> is
\* NaN, <<"inf", 1>> and <<"inf", -1>> are the infinities.
\*
\* The networks that neat builds are outside the source; a genome's network
\* is one of these functions of the observation (y, |y - height|,
\* |y - bottom|), given in half-pixels:
\*   never          -1.0 whatever the observation
\*   half           0.5 whatever the observation
\*   gap, c         1.0 when |y - height| - |y - bottom| > c, else -1.0
\*                  (jump when the bird is lower than a line in the gap)
\*   nan, inf       a non-finite output on every call
\*   shape          an empty output list on every call
\*   raise          the call raises
NETS ==
  { [kind |-> "never", c |-> 0],
    [kind |-> "half",  c |-> 0],
    [kind |-> "gap",   c |-> 60],
    [kind |-> "gap",   c |-> 180],
    [kind |-> "nan",   c |-> 0],
    [kind |-> "inf",   c |-> 0],
    [kind |-> "shape", c |-> 0],
    [kind |-> "raise", c |-> 0] }

\* nets[x].activate(observation): whether it raised, and the output list
activate(n, observation) ==
  CASE n.kind = "raise" -> [raised |-> TRUE,  output |-> <<>>]
    [] n.kind = "shape" -> [raised |-> FALSE, output |-> <<>>]
    [] n.kind = "nan"   -> [raised |-> FALSE, output |-> << <<"nan", 0>> >>]
    [] n.kind = "inf"   -> [raised |-> FALSE, output |-> << <<"inf", 1>> >>]
    [] n.kind = "never" -> [raised |-> FALSE, output |-> << <<"num", -10>> >>]
    [] n.kind = "half"  -> [raised |-> FALSE, output |-> << <<"num", 5>> >>]
    [] n.kind = "gap"   ->
         [raised |-> FALSE,
          output |-> << <<"num", IF observation[2] - observation[3] > n.c
                                  THEN 10 ELSE -10>> >>]

\* whether the call failed in the sense of the error-handling design:
\* it raised, or its output is wrong-shaped or non-finite
Malfunction(res) ==
  \/ res.raised
  \/ Len(res.output) # 1
  \/ res.output[1][1] # "num"

\* the observation handed to the network (line 381), in half-pixels
Observation(b, pipe) ==
  <<b.y, Abs(b.y - 2 * pipe.height), Abs(b.y - 2 * pipe.bottom)>>

\* output[0] >= 0.5
AtLeastHalf(v) ==
  CASE v[1] = "num" -> v[2] >= 5
    [] v[1] = "nan" -> FALSE
    [] v[1] = "inf" -> v[2] > 0

\* output[0] > 0.5 on a value: NaN compares false, +inf true
GreaterThanHalf(v) ==
  CASE v[1] = "num" -> v[2] > 5
    [] v[1] = "nan" -> FALSE
    [] v[1] = "inf" -> v[2] > 0

(* ----------------------------- eval_genomes --------------------------- *)
Init ==
  \E n \in 1..MaxBirds :
  \E f \in [1..n -> NETS] :
  \E r \in randrange(RAND_LO, RAND_HI) :
    /\ pc = "top"
    /\ birds = [i \in 1..n |-> i]
    /\ nets = [i \in 1..n |-> i]
    /\ ge = [i \in 1..n |-> i]
    /\ bird = [i \in 1..n |-> NewBird(BIRD_X, BIRD_Y)]
    /\ net = f
    /\ fitness = [i \in 1..n |-> 0]
    /\ pipes = <<NewPipe(1, PIPE_X, r)>>
    /\ score = 0
    /\ pipe_ind = 0
    /\ add_pipe = FALSE
    /\ rem = <<>>
    /\ pidx = 0
    /\ h = [tick |-> 0, made |-> 1, score0 |-> 0, made0 |-> 1,
            flipped |-> {}, overlapped |-> {}, oob |-> {},
            failed |-> {}, err |-> "none", targets |-> {},
            setters |-> {}, survivors |-> {},
            bird0 |-> [i \in 1..n |-> NewBird(BIRD_X, BIRD_Y)],
            seen |-> [i \in 1..n |-> 2 * BIRD_Y],
            out |-> [i \in 1..n |-> <<"none", 0>>],
            jumped |-> {},
            ticks_in |-> [i \in 1..n |-> 0],
            passes_in |-> [i \in 1..n |-> 0],
            penalties |-> [i \in 1..n |-> 0]]

\* lines 366-370: the index of the pipe the observation is taken from
FirstPipeOnly(bs, ps) == 0

SecondPipeOnly(bs, ps) == 1

\* the second pipe as soon as the first has its passed flag set
PassedFlagInd(bs, ps) == IF Len(ps) > 1 /\ ps[1].passed THEN 1 ELSE 0

select_pipe_ind(bs, ps) ==
  IF Len(ps) > 1 /\ bird[bs[1]].x > ps[1].x + PIPE_WIDTH THEN 1 ELSE 0

\* pygame.QUIT: pygame.quit() and quit() leave the program
Quit ==
  /\ pc = "top"
  /\ pc' = "quit"
  /\ UNCHANGED <<birds, nets, ge, bird, net, fitness, pipes, score, pipe_ind,
                 add_pipe, rem, pidx, h>>

\* line 367: the test that keeps the loop going
AlwaysAlive == TRUE

cohort_alive == Len(birds) > 0

\* lines 355-373, cohort not empty: a new iteration starts
LoopTop ==
  /\ pc = "top"
  /\ cohort_alive
  /\ h.tick < MaxTicks
  /\ pipe_ind' = select_pipe_ind(birds, pipes)
  /\ pc' = "birds"
  /\ h' = [h EXCEPT !.tick = @ + 1, !.score0 = score, !.made0 = h.made,
                    !.flipped = {}, !.overlapped = {}, !.oob = {},
                    !.failed = {}, !.targets = {},
                    !.setters = {}, !.survivors = {},
                    !.bird0 = bird, !.jumped = {},
                    !.out = [i \in DOMAIN @ |-> <<"none", 0>>]]
  /\ UNCHANGED <<birds, nets, ge, bird, net, fitness, pipes, score,
                 add_pipe, rem, pidx>>

\* lines 371-373, cohort empty: run = False; break
LoopEnd ==
  /\ pc = "top"
  /\ ~cohort_alive
  /\ pc' = "done"
  /\ pipe_ind' = 0
  /\ UNCHANGED <<birds, nets, ge, bird, net, fitness, pipes, score,
                 add_pipe, rem, pidx, h>>

\* The order of section 4.4 of the description: observe and decide on the
\* position the iteration started with, advance the physics afterwards
DecideThenMove(x, st) ==
  LET id  == birds[x + 1]
      b0  == st.bird[id]
      st1 == [st EXCEPT !.fitness[ge[x + 1]] = @ + 1]
  IN  IF pipe_ind >= Len(pipes)
      THEN [st1 EXCEPT !.err = "IndexError"]
      ELSE
        LET res == activate(net[nets[x + 1]],
                            Observation(b0, pipes[pipe_ind + 1]))
            st2 == [st1 EXCEPT
                      !.targets = @ \cup {pipes[pipe_ind + 1].id},
                      !.seen[id] = Observation(b0, pipes[pipe_ind + 1])[1],
                      !.out[id] = IF ~res.raised /\ Len(res.output) > 0
                                  THEN res.output[1] ELSE @,
                      !.failed = IF Malfunction(res) THEN @ \cup {id} ELSE @]
        IN  IF res.raised THEN [st2 EXCEPT !.err = "Exception"]
            ELSE IF Len(res.output) = 0 THEN [st2 EXCEPT !.err = "IndexError"]
            ELSE IF GreaterThanHalf(res.output[1])
                 THEN [st2 EXCEPT !.bird[id] = move(jump(b0)),
                                  !.jumped = @ \cup {id}]
                 ELSE [st2 EXCEPT !.bird[id] = move(b0)]

\* lines 375-386, one bird: move, survival reward, network call, jump.
\* st carries the Bird objects, the fitness values, the exception that
\* ended the loop (if any), and for the history the birds whose call
\* malfunctioned, the pipes that observations were taken from, the y
\* observed, the outputs and the birds that jumped.
bird_step(x, st) ==
  LET id  == birds[x + 1]
      b1  == move(st.bird[id])
      st1 == [st EXCEPT !.bird[id] = b1, !.fitness[ge[x + 1]] = @ + 1]
  IN  IF pipe_ind >= Len(pipes)
      THEN [st1 EXCEPT !.err = "IndexError"]
      ELSE
        LET res == activate(net[nets[x + 1]],
                            Observation(b1, pipes[pipe_ind + 1]))
            st2 == [st1 EXCEPT
                      !.targets = @ \cup {pipes[pipe_ind + 1].id},
                      !.seen[id] = Observation(b1, pipes[pipe_ind + 1])[1],
                      !.out[id] = IF ~res.raised /\ Len(res.output) > 0
                                  THEN res.output[1] ELSE @,
                      !.failed = IF Malfunction(res) THEN @ \cup {id} ELSE @]
        IN  IF res.raised THEN [st2 EXCEPT !.err = "Exception"]
            ELSE IF Len(res.output) = 0 THEN [st2 EXCEPT !.err = "IndexError"]
            ELSE IF GreaterThanHalf(res.output[1])
                 THEN [st2 EXCEPT !.bird[id] = jump(b1),
                                  !.jumped = @ \cup {id}]
                 ELSE st2

RECURSIVE bird_loop(_, _)
bird_loop(x, st) ==
  IF x >= Len(birds) \/ st.err # "none" THEN st
  ELSE bird_loop(x + 1, bird_step(x, st))

\* lines 375-390: the bird loop, then add_pipe = False and rem = []
BirdLoop ==
  /\ pc = "birds"
  /\ LET st == bird_loop(0, [bird |-> bird, fitness |-> fitness,
                             err |-> "none", failed |-> {},
                             targets |-> {}, seen |-> h.seen,
                             out |-> h.out, jumped |-> {}])
     IN  /\ bird' = st.bird
         /\ fitness' = st.fitness
         /\ pc' = IF st.err # "none" THEN "crashed"
                  ELSE IF Len(pipes) = 0 THEN "add" ELSE "pipes"
         /\ h' = [h EXCEPT
                    !.failed = st.failed,
                    !.targets = st.targets,
                    !.seen = st.seen,
                    !.out = st.out,
                    !.jumped = st.jumped,
                    !.err = st.err,
                    !.ticks_in = [i \in DOMAIN @ |->
                                    IF i \in Range(birds) THEN @[i] + 1 ELSE @[i]]]
  /\ add_pipe' = FALSE
  /\ rem' = <<>>
  /\ pidx' = 0
  /\ UNCHANGED <<birds, nets, ge, net, pipes, score, pipe_ind>>

\* lines 397-403: the collision penalty, then the three pops
PenaliseAfterPop(st, x) ==
  LET popped == [st EXCEPT !.birds = Pop(@, x), !.nets = Pop(@, x),
                           !.ge = Pop(@, x)]
  IN  IF x < Len(popped.ge)
      THEN [popped EXCEPT !.fitness[popped.ge[x + 1]] = @ - 10,
                          !.penalties[popped.ge[x + 1]] = @ + 1]
      ELSE popped

\* the genome popped is the head of ge, not the one at x
MisalignedRemove(st, x) ==
  [st EXCEPT !.fitness[st.ge[x + 1]] = @ - 10,
             !.penalties[st.ge[x + 1]] = @ + 1,
             !.birds = Pop(@, x), !.nets = Pop(@, x), !.ge = Pop(@, 0)]

remove_bird(st, x) ==
  [st EXCEPT !.fitness[st.ge[x + 1]] = @ - 10,
             !.penalties[st.ge[x + 1]] = @ + 1,
             !.birds = Pop(@, x), !.nets = Pop(@, x), !.ge = Pop(@, x)]

\* lines 405-408, for the bird the loop variable holds
ForgetPassed(st, b) ==
  IF ~st.pipe.passed /\ st.pipe.x < b.x
  THEN [st EXCEPT !.add_pipe = TRUE]
  ELSE st

mark_passed(st, b) ==
  IF ~st.pipe.passed /\ st.pipe.x < b.x
  THEN [st EXCEPT !.pipe.passed = TRUE, !.add_pipe = TRUE]
  ELSE st

\* lines 395-408: "for x, bird in enumerate(birds)" under the pops of its
\* body.  The list iterator yields birds[x] for x = 0, 1, ... as long as
\* x < len(birds), with len(birds) read anew each time.  st.setters
\* collects, for the history, the birds whose pass of the loop body set
\* pipe.passed.
RECURSIVE collision_loop(_, _)
collision_loop(x, st) ==
  IF x >= Len(st.birds) THEN st
  ELSE
    LET id  == st.birds[x + 1]
        b   == bird[id]
        st1 == IF collide(st.pipe, b) THEN remove_bird(st, x) ELSE st
        st2 == mark_passed(st1, b)
    IN  collision_loop(x + 1,
          [st2 EXCEPT !.setters = IF st2.pipe.passed /\ ~st1.pipe.passed
                                  THEN @ \cup {id} ELSE @])

\* line 411: the pipe has left the screen on the left
LeadingEdgeOffScreen(p) == p.x < 0

off_screen(p) == p.x + PIPE_WIDTH < 0

\* lines 391-412, one pipe of "for pipe in pipes"
PipeStep ==
  /\ pc = "pipes"
  /\ pidx < Len(pipes)
  /\ LET moved == PipeMove(pipes[pidx + 1])
         st == collision_loop(0, [birds |-> birds, nets |-> nets, ge |-> ge,
                                  fitness |-> fitness,
                                  penalties |-> h.penalties,
                                  pipe |-> moved, add_pipe |-> add_pipe,
                                  setters |-> h.setters])
     IN  /\ birds' = st.birds
         /\ nets' = st.nets
         /\ ge' = st.ge
         /\ fitness' = st.fitness
         /\ add_pipe' = st.add_pipe
         /\ pipes' = [pipes EXCEPT ![pidx + 1] = st.pipe]
         /\ rem' = IF off_screen(st.pipe)
                   THEN Append(rem, st.pipe.id) ELSE rem
         /\ h' = [h EXCEPT
                    !.penalties = st.penalties,
                    !.setters = st.setters,
                    !.survivors = IF st.pipe.passed /\ ~moved.passed
                                  THEN Range(st.birds) ELSE @,
                    !.flipped = IF st.pipe.passed /\ ~moved.passed
                                THEN @ \cup {moved.id} ELSE @,
                    !.overlapped = @ \cup {i \in Range(birds) :
                                             collide(moved, bird[i])}]
  /\ pidx' = pidx + 1
  /\ pc' = IF pidx + 1 >= Len(pipes) THEN "add" ELSE "pipes"
  /\ UNCHANGED <<bird, net, score, pipe_ind>>

\* lines 419-420: "for genome in ge: genome.fitness += 5"
RewardEveryGenome(x, gs, fit) == [g \in DOMAIN fit |-> fit[g] + 50]

RECURSIVE reward_pass(_, _, _)
reward_pass(x, gs, fit) ==
  IF x >= Len(gs) THEN fit
  ELSE reward_pass(x + 1, gs, [fit EXCEPT ![gs[x + 1]] = @ + 50])

\* lines 415-422
AddPipe ==
  /\ pc = "add"
  /\ IF add_pipe
     THEN \E r \in randrange(RAND_LO, RAND_HI) :
            /\ score' = score + 1
            /\ fitness' = reward_pass(0, ge, fitness)
            /\ pipes' = Append(pipes, NewPipe(h.made + 1, PIPE_X, r))
     ELSE UNCHANGED <<score, fitness, pipes>>
  /\ h' = [h EXCEPT
             !.made = IF add_pipe THEN @ + 1 ELSE @,
             !.passes_in = [i \in DOMAIN @ |->
                              IF i \in Range(birds) /\ h.flipped # {}
                              THEN @[i] + 1 ELSE @[i]]]
  /\ pc' = "rem"
  /\ UNCHANGED <<birds, nets, ge, bird, net, pipe_ind, add_pipe, rem, pidx>>

\* list.remove(v) for the Pipe object with identity v: the first match goes
RECURSIVE list_remove(_, _)
list_remove(ps, v) ==
  IF Len(ps) = 0 THEN ps
  ELSE IF Head(ps).id = v THEN Tail(ps)
  ELSE <<Head(ps)>> \o list_remove(Tail(ps), v)

\* lines 425-426: "for pipe in rem: pipes.remove(pipe)"
RECURSIVE remove_pipes(_, _)
remove_pipes(ps, rs) ==
  IF Len(rs) = 0 THEN ps
  ELSE remove_pipes(list_remove(ps, Head(rs)), Tail(rs))

RemovePipes ==
  /\ pc = "rem"
  /\ pipes' = remove_pipes(pipes, rem)
  /\ pc' = "floor"
  /\ UNCHANGED <<birds, nets, ge, bird, net, fitness, score, pipe_ind,
                 add_pipe, rem, pidx, h>>

\* line 430: bird.y + bird.img.get_height() >= FLOOR or bird.y < 0
out_of_bounds(b) == b.y + 2 * BIRD_HEIGHT >= 2 * FLOOR \/ b.y < 0

\* lines 428-434: "for x, bird in enumerate(birds)" under the pops of its body
RECURSIVE floor_loop(_, _)
floor_loop(x, st) ==
  IF x >= Len(st.birds) THEN st
  ELSE floor_loop(x + 1,
                  IF out_of_bounds(bird[st.birds[x + 1]])
                  THEN remove_bird(st, x) ELSE st)

FloorLoop ==
  /\ pc = "floor"
  /\ LET st == floor_loop(0, [birds |-> birds, nets |-> nets, ge |-> ge,
                              fitness |-> fitness,
                              penalties |-> h.penalties])
     IN  /\ birds' = st.birds
         /\ nets' = st.nets
         /\ ge' = st.ge
         /\ fitness' = st.fitness
         /\ h' = [h EXCEPT
                    !.penalties = st.penalties,
                    !.oob = {i \in Range(birds) : out_of_bounds(bird[i])}]
  /\ pc' = "draw"
  /\ UNCHANGED <<bird, net, pipes, score, pipe_ind, add_pipe, rem, pidx>>

\* lines 436-437: base.move() and draw_window; of these only bird.draw,
\* called for every bird of the list, changes anything the loop reads
DrawWindow ==
  /\ pc = "draw"
  /\ bird' = [i \in DOMAIN bird |->
                IF i \in Range(birds) THEN draw(bird[i]) ELSE bird[i]]
  /\ pc' = "top"
  /\ UNCHANGED <<birds, nets, ge, net, fitness, pipes, score, pipe_ind,
                 add_pipe, rem, pidx, h>>

Next ==
  \/ Quit
  \/ LoopTop
  \/ LoopEnd
  \/ BirdLoop
  \/ PipeStep
  \/ AddPipe
  \/ RemovePipes
  \/ FloorLoop
  \/ DrawWindow

Spec == Init /\ [][Next]_vars

(* ------------------------------ properties ---------------------------- *)
\* the genomes of the cohort, the ones still in the list, the end of an
\* iteration of the game loop
Genomes == DOMAIN fitness
Alive == Range(birds)
TickEnd == pc = "top" /\ h.tick > 0

\* C1: every bird that was in the list when a pipe's collision loop started
\* and that this pipe collides with has been penalised and is out of birds,
\* nets and ge when the iteration ends.
C1_CollisionResolved ==
  TickEnd =>
    \A i \in h.overlapped :
      /\ i \notin Range(birds) /\ i \notin Range(nets) /\ i \notin Range(ge)
      /\ h.penalties[i] = 1

\* C2: every bird that was in the list when the floor/ceiling loop started
\* and was out of bounds has been penalised by 1 and is out of the cohort
\* when the iteration ends.
C2_OutOfBoundsResolved ==
  TickEnd =>
    \A i \in h.oob :
      /\ i \notin Range(birds) /\ i \notin Range(nets) /\ i \notin Range(ge)
      /\ h.penalties[i] = 1

\* the pipes of the list that were constructed during the current iteration
NewPipes == {i \in 1..Len(pipes) : pipes[i].id > h.made0}

\* C3: a passed flag never goes back to False (so it becomes True at most
\* once); an iteration in which some pipe became passed ends with exactly
\* one new pipe in the list, at x = 600, and with score one higher than at
\* its start; an iteration in which no pipe became passed ends with no new
\* pipe and the same score.
C3_PassThenSpawn ==
  [][ /\ \A i \in 1..Len(pipes) : \A j \in 1..Len(pipes') :
           (pipes[i].id = pipes'[j].id /\ pipes[i].passed) => pipes'[j].passed
      /\ (pc = "draw" /\ pc' = "top") =>
           IF h'.flipped # {}
           THEN /\ Cardinality(h'.flipped) = 1
                /\ Cardinality(NewPipes') = 1
                /\ \A i \in NewPipes' : pipes'[i].x = PIPE_X /\ i = Len(pipes')
                /\ score' = h'.score0 + 1
           ELSE /\ NewPipes' = {}
                /\ score' = h'.score0
    ]_vars

\* an iteration in which a pipe became passed while two birds were in the list
C3_Witness ==
  TickEnd /\ h.flipped # {} /\ Len(birds) >= 2 /\ score >= 1

\* C4: at the end of every iteration each genome's fitness (in tenths) is
\* 1 per bird loop that started with it in the list, plus 50 per iteration
\* with a newly passed pipe that it outlived the pipe loop of, minus 10 if
\* it is no longer in the cohort; and no genome has been penalised twice.
C4_FitnessAccounting ==
  pc = "top" =>
    \A g \in Genomes :
      /\ fitness[g] = h.ticks_in[g] + 50 * h.passes_in[g]
                        - (IF g \in Alive THEN 0 ELSE 10)
      /\ h.penalties[g] <= 1

\* a genome that collected a pass reward and died later, next to one that
\* died before the pass
C4_Witness ==
  /\ pc = "top"
  /\ \E g \in Genomes : g \notin Alive /\ h.passes_in[g] >= 1
  /\ \E g \in Genomes : g \notin Alive /\ h.passes_in[g] = 0 /\ score >= 1

\* C5: no step changes the fitness of a genome that is out of the cohort;
\* the step that removes a genome takes exactly 1 off its fitness; and the
\* pipe and floor/ceiling loops leave the fitness of every genome they do
\* not remove as it was.
C5_DeadFitnessFinal ==
  [][ \A g \in Genomes :
        /\ g \notin Alive => fitness'[g] = fitness[g]
        /\ (g \in Alive /\ g \notin Alive') => fitness'[g] = fitness[g] - 10
        /\ (g \in Alive /\ g \in Alive' /\ pc \in {"pipes", "floor"})
             => fitness'[g] = fitness[g]
    ]_vars

\* a genome died, and its list neighbour went on to earn a pass reward and
\* further survival rewards
C5_Witness ==
  \E g \in Genomes : \E k \in Genomes :
    /\ g \notin Alive /\ k \in Alive
    /\ h.passes_in[k] > h.passes_in[g]
    /\ h.ticks_in[k] > h.ticks_in[g] + 1

\* the bird loop of the current iteration has just run: the lists and the
\* pipes are still as they were when its observations were built
AfterBirdLoop == pc = "pipes" /\ pidx = 0

C8_TerminalVelocity ==
  [][ \A i \in DOMAIN bird :
        /\ bird'[i].y - bird[i].y <= 32
        /\ bird[i].vel = 0 => bird'[i].y - bird[i].y >= 0
    ]_vars

\* the clamp has acted on a bird that never jumped and on one that did
C8_Witness ==
  /\ \E i \in DOMAIN bird :
       /\ bird[i].vel = 0 /\ bird[i].tick_count >= 4
       /\ bird[i].displacement = 32
  /\ \E i \in DOMAIN bird :
       /\ bird[i].vel # 0 /\ bird[i].tick_count >= 9
       /\ bird[i].displacement = 32

\* C9: every pipe of the list has bottom - height = GAP and
\* 50 <= height < 450, so its gap ends above 650, above the floor line, and
\* starts inside the window; Pipe.move and the rest of the loop change
\* nothing of a pipe but x and passed.
C9_GapInvariant ==
  [][ /\ \A p \in Range(pipes') :
           /\ p.bottom - p.height = GAP
           /\ RAND_LO <= p.height /\ p.height < RAND_HI
           /\ p.bottom < 650 /\ p.bottom < FLOOR
           /\ 0 <= p.height /\ p.height < WIN_HEIGHT
      /\ \A p \in Range(pipes) : \A q \in Range(pipes') :
           p.id = q.id =>
             /\ q.height = p.height /\ q.top = p.top /\ q.bottom = p.bottom
             /\ q.x <= p.x
    ]_vars

\* a pipe with the largest height that has scrolled to the left edge
C9_Witness ==
  \E p \in Range(pipes) : p.height = RAND_HI - 1 /\ p.x + PIPE_WIDTH < 0

\* C10: a network call that malfunctions does not end the episode and
\* counts as "no jump": the loop goes on, and the bird has not jumped.
C10_FailureIsNoJump ==
  \A i \in h.failed :
    /\ pc # "crashed"
    /\ bird[i].tick_count > 0

\* The iteration is past its bird loop and has not reached the next one.
PastBirdLoop == pc \in {"pipes", "add", "rem", "floor", "draw"}

\* C11 as stated: the observation handed to a bird's network carries the y
\* the bird had before this iteration's Bird.move, and a jump decided in
\* this iteration already shapes the displacement applied in it (the bird
\* moves up in the iteration in which it jumps).
C11_DecideThenMove ==
  AfterBirdLoop =>
    \A i \in Alive :
      /\ h.seen[i] = h.bird0[i].y
      /\ i \in h.jumped => bird[i].displacement < 0

\* C11, order of the code (lines 376-386): Bird.move comes first, so the
\* observation carries the y after this iteration's displacement, and that
\* displacement was fixed by the velocity and tick count the iteration
\* started with; a jump only resets velocity, tick count and height for
\* the next iteration.  Nothing moves the bird again before the next bird
\* loop, so the pipe and floor tests see the y the network was shown.
C11_MoveThenDecide ==
  PastBirdLoop =>
    \A i \in Alive :
      /\ h.seen[i] = bird[i].y
      /\ bird[i].displacement =
           Displacement(h.bird0[i].vel, h.bird0[i].tick_count + 1)
      /\ bird[i].y = h.bird0[i].y + bird[i].displacement
      /\ IF i \in h.jumped
         THEN /\ bird[i].vel = -21
              /\ bird[i].tick_count = 0
              /\ bird[i].height = bird[i].y
         ELSE /\ bird[i].vel = h.bird0[i].vel
              /\ bird[i].tick_count = h.bird0[i].tick_count + 1
              /\ bird[i].height = h.bird0[i].height

\* a bird decided to jump in an iteration in which it had already been
\* moved down, and went on to the pipe tests at the y it was shown
C11_Witness ==
  /\ AfterBirdLoop
  /\ \E i \in Alive :
       /\ i \in h.jumped
       /\ bird[i].displacement > 0
       /\ h.seen[i] = bird[i].y
       /\ h.seen[i] # h.bird0[i].y

\* C12: the pipe's passed flag is set only by a bird that is still in the
\* list after its collision check against that pipe, so whenever score went
\* up in an iteration (and a pipe was appended), some bird survived the
\* pass.
C12_OnlyLiveAgentsScore ==
  pc = "rem" =>
    /\ h.setters \subseteq h.survivors
    /\ score > h.score0 => h.survivors # {}

\* C13 as stated: a bird whose network returned a number jumps in that
\* iteration exactly when the number is at least 0.5 (outputs in tenths).
C13_JumpAtOrAboveHalf ==
  AfterBirdLoop =>
    \A i \in Alive :
      h.out[i][1] = "num" => (i \in h.jumped <=> h.out[i][2] >= 5)

\* C13, threshold of the code (line 385, "output[0] > 0.5"): the bird jumps
\* exactly when the number is greater than 0.5; an output of exactly 0.5
\* and every smaller one leave velocity, tick count and height alone.
C13_JumpAboveHalf ==
  AfterBirdLoop =>
    \A i \in Alive :
      h.out[i][1] = "num" =>
        /\ i \in h.jumped <=> h.out[i][2] > 5
        /\ i \in h.jumped =>
             bird[i].vel = -21 /\ bird[i].tick_count = 0
        /\ i \notin h.jumped =>
             /\ bird[i].vel = h.bird0[i].vel
             /\ bird[i].tick_count = h.bird0[i].tick_count + 1

\* in one bird loop a network returned exactly 0.5 and its bird did not
\* jump, another returned 1.0 and its bird jumped
C13_Witness ==
  /\ AfterBirdLoop
  /\ \E i, j \in Alive :
       /\ h.out[i] = <<"num", 5>> /\ i \notin h.jumped
       /\ h.out[j] = <<"num", 10>> /\ j \in h.jumped

\* the Pipe objects of a list, by identity
PipeIds(ps) == {ps[k].id : k \in 1..Len(ps)}

\* C14: a pipe leaves the active list only in the removal step of an
\* iteration in which its trailing edge (x + pipe width) is below 0, no pipe
\* with its trailing edge below 0 is left in the list once that step has
\* run, and the list holds at most two pipes at the end of every iteration.
C14_PipeRetirement ==
  /\ [](pc \in {"floor", "draw", "top"} =>
          \A k \in 1..Len(pipes) : pipes[k].x + PIPE_WIDTH >= 0)
  /\ [](TickEnd => Len(pipes) <= 2)
  /\ [][\A k \in 1..Len(pipes) :
          pipes[k].id \notin PipeIds(pipes') =>
            /\ pc = "rem"
            /\ pipes[k].x + PIPE_WIDTH < 0
            /\ pipes[k].x + VEL + PIPE_WIDTH >= 0]_vars

\* the first pipe has just been retired, one iteration after its trailing
\* edge was still at 0, and the second pipe is the only one left
C14_Witness ==
  /\ pc = "floor"
  /\ rem = <<1>>
  /\ PipeIds(pipes) = {2}
  /\ Len(pipes) = 1

\* C15: after any sequence of Bird.jump and Bird.move calls a bird's tilt
\* lies between the maximum downward value -90 and MAX_ROTATION.
C15_TiltWithinLimits ==
  \A i \in DOMAIN bird :
    bird[i].tilt <= MAX_ROTATION /\ bird[i].tilt >= -90

\* C16: the image whose mask Pipe.collide tests in an iteration is the same
\* whatever the bird's tilt and animation counter are: any two birds that
\* go into the pipe tests of one iteration, having been drawn equally
\* often, present the same image.
C16_MaskIgnoresVisualState ==
  pc = "pipes" =>
    \A i, j \in Alive : get_mask(bird[i]) = get_mask(bird[j])

\* C17: birds, nets and ge always have one length, position i of each holds
\* the bird, network and genome of the same original agent, the agents
\* stand in their original (insertion) order, and no step adds an agent to
\* the lists.
C17_ParallelLists ==
  /\ [](/\ Len(birds) = Len(nets)
        /\ Len(nets) = Len(ge)
        /\ \A i \in 1..Len(birds) : birds[i] = nets[i] /\ nets[i] = ge[i]
        /\ \A i, j \in 1..Len(birds) : i < j => birds[i] < birds[j])
  /\ [][/\ Range(birds') \subseteq Range(birds)
        /\ Len(birds') <= Len(birds)]_vars

\* the first agent of a cohort of two has been removed and the second has
\* moved to position 0 in all three lists
C17_Witness ==
  /\ Genomes = {1, 2}
  /\ birds = <<2>>
  /\ nets = <<2>>
  /\ ge = <<2>>
  /\ pc = "pipes"

\* C18: whenever the bird loop is about to build observations (the cohort
\* is then non-empty), the pipe list is non-empty and pipe_ind is a valid
\* index into it; pipe_ind is 1 only when the list holds at least two
\* pipes.
C18_PipeIndexValid ==
  pc = "birds" =>
    /\ Len(birds) > 0
    /\ Len(pipes) >= 1
    /\ pipe_ind \in 0..(Len(pipes) - 1)
    /\ pipe_ind = 1 => Len(pipes) >= 2

\* the networks are about to be activated on the second of two pipes
C18_Witness ==
  /\ pc = "birds"
  /\ pipe_ind = 1
  /\ Len(pipes) = 2
  /\ Len(birds) > 0

\* C19: when the bird loop is about to build observations, the pipe that
\* pipe_ind selects has its trailing edge (x + pipe width) at or ahead of
\* the birds' x, and no other pipe of the list with its trailing edge at or
\* ahead of the birds' x is nearer.
C19_TargetNotCleared ==
  pc = "birds" =>
    /\ pipe_ind < Len(pipes)
    /\ LET target == pipes[pipe_ind + 1]
       IN  /\ target.x + PIPE_WIDTH >= BIRD_X
           /\ \A k \in 1..Len(pipes) :
                pipes[k].x + PIPE_WIDTH >= BIRD_X => pipes[k].x >= target.x

\* the first pipe's trailing edge is behind the birds and the second pipe
\* is the target
C19_Witness ==
  /\ pc = "birds"
  /\ Len(pipes) = 2
  /\ pipes[1].x + PIPE_WIDTH < BIRD_X
  /\ pipes[2].x + PIPE_WIDTH >= BIRD_X
  /\ pipe_ind = 1
  /\ \A i \in Alive : bird[i].x = BIRD_X

=============================================================================
